---- MODULE Spec2Model ----
(***************************************************************************)
(* Model of the t8-client signal pipeline: payload decoding                *)
(* (functions.py, data/*_decode.py), Waveform (waveform.py) and Spectrum   *)
(* (spectrum.py).                                                          *)
(*                                                                         *)
(* Number representation.  Python floats are modelled exactly where the    *)
(* code's arithmetic is rational (axes, scaling: records [n, d] in lowest  *)
(* terms) and in fixed point with three decimals where it is not (the      *)
(* Hann window and the Fourier transform).  A payload is modelled by the   *)
(* byte string that b64decode + zlib.decompress hand to the unpacking      *)
(* loop.                                                                   *)
(***************************************************************************)
EXTENDS Integers, Sequences, FiniteSets, TLC

VARIABLES
    wave,          \* the Waveform object (waveform.py:13)
    spectrum,      \* the reference Spectrum object built by Spectrum.from_api
    calc,          \* the Spectrum object returned by Waveform.create_spectrum
    err,           \* exception raised by the last call ("None" when it returned)
    lastCall,      \* name of the last operation that ran
    windowWrites,  \* number of assignments to self.windowed_amps (waveform.py:156)
    padWrites,     \* number of assignments to self.padded_amps (waveform.py:168)
    r_wave,        \* the JSON body Waveform.from_api got from fetch_data
    r_spectrum,    \* the JSON body Spectrum.from_api got from fetch_data
    band,          \* (fmin, fmax) of the last create_spectrum or apply_filter call
    script,        \* outcome of a run of data/waveform_decode.py or data/spectrum_decode.py
    cli,           \* the command-line client (main.py): options, context, exit
    response,      \* the last fetch_data call: the response and what became of it
    conv           \* the last date-time conversion: function, argument, result

vars == <<wave, spectrum, calc, err, lastCall, windowWrites, padWrites,
          r_wave, r_spectrum, band, script, cli, response, conv>>

----------------------------------------------------------------------------
(* Bounds of the model *)

\* longest decompressed payload, in bytes
MaxBytes == 11
\* how many times one derived field of a Waveform may be assigned in a run
MaxWrites == 2

\* byte patterns the decompressed payloads are cut from: the int16 samples
\* 0, 1, -1, 0, 3 (the amplitudes of tests/test_waveform.py), 2, -2, -1,
\* and all zero
Patterns ==
    { <<0, 0, 1, 0, 255, 255, 0, 0, 3, 0>>,
      <<2, 0, 254, 255, 255, 255>>,
      <<0, 0>> }
\* values of the "factor" field when the payload carries one
Factors == {2}
\* values of the "sample_rate" field
SampleRates == {8}
\* (fmin, fmax) arguments of create_spectrum and apply_filter
Bands == {<<0, 4>>, <<2, 3>>, <<0 - 4, 0>>, <<3, 0>>}
\* values of "min_freq" and "max_freq"
MinFreqs == {1}
MaxFreqs == {0, 4}
\* values of FORMAT in the decode scripts
Formats == {"zint", "zlib", "b64", "raw"}

----------------------------------------------------------------------------
(* Rational numbers: [n |-> numerator, d |-> denominator > 0], lowest terms *)

Abs(x) == IF x < 0 THEN 0 - x ELSE x

RECURSIVE Gcd(_, _)
Gcd(a, b) == IF b = 0 THEN a ELSE Gcd(b, a % b)

Rat(n, d) ==
    LET s == IF d < 0 THEN 0 - 1 ELSE 1
        g == Gcd(Abs(n), Abs(d))
    IN  [n |-> (s * n) \div g, d |-> (s * d) \div g]

RInt(i) == [n |-> i, d |-> 1]
RAdd(a, b) == Rat(a.n * b.d + b.n * a.d, a.d * b.d)
RSub(a, b) == Rat(a.n * b.d - b.n * a.d, a.d * b.d)
RMul(a, b) == Rat(a.n * b.n, a.d * b.d)
RDivInt(a, k) == Rat(a.n, a.d * k)
RLeq(a, b) == a.n * b.d <= b.n * a.d
RLt(a, b) == a.n * b.d < b.n * a.d

----------------------------------------------------------------------------
(* Optional arrays: a field that is either None or a numpy array *)

None == [isNone |-> TRUE, arr |-> <<>>]
Some(a) == [isNone |-> FALSE, arr |-> a]

----------------------------------------------------------------------------
(* Codecs *)

\* the two bytes read as an unsigned 16-bit integer
Int16_unsigned(lo, hi) == lo + 256 * hi

\* struct.unpack("h", two bytes): signed 16-bit integer, low byte first
Int16(lo, hi) ==
    LET v == lo + 256 * hi
    IN  IF v >= 32768 THEN v - 65536 ELSE v

\* struct.unpack("f", four bytes): the float with that bit pattern, kept as
\* the pattern itself
Float32(b0, b1, b2, b3) == <<b0, b1, b2, b3>>

\* functions.py zint_to_float, applied to the decompressed bytes d
zint_to_float(d) ==
    [i \in 1..(Len(d) \div 2) |-> Int16(d[2 * i - 1], d[2 * i])]

\* data/waveform_decode.py zlib_to_float, applied to the decompressed bytes d
zlib_to_float(d) ==
    [i \in 1..(Len(d) \div 4) |->
        Float32(d[4 * i - 3], d[4 * i - 2], d[4 * i - 1], d[4 * i])]

\* data/waveform_decode.py b64_to_float: np.fromstring(bytes, dtype="f")
\* refuses a buffer whose size is no multiple of the element size
b64_to_float_raises(d) == Len(d) % 4 # 0
b64_to_float(d) ==
    [i \in 1..(Len(d) \div 4) |->
        Float32(d[4 * i - 3], d[4 * i - 2], d[4 * i - 1], d[4 * i])]

\* decode_format = {"zint": ..., "zlib": ..., "b64": ...}
decode_format_keys == {"zint", "zlib", "b64"}

\* decode with a fallback: an unknown FORMAT is decoded as zint
decode_default(FORMAT, d) ==
    IF FORMAT = "zlib"
    THEN [exc |-> "None", called |-> "zlib_to_float", out |-> zlib_to_float(d)]
    ELSE IF FORMAT = "b64"
    THEN IF b64_to_float_raises(d)
         THEN [exc |-> "ValueError", called |-> "b64_to_float", out |-> <<>>]
         ELSE [exc |-> "None", called |-> "b64_to_float", out |-> b64_to_float(d)]
    ELSE [exc |-> "None", called |-> "zint_to_float", out |-> zint_to_float(d)]

\* decode_format[FORMAT](raw): the exception raised and the samples returned
decode(FORMAT, d) ==
    IF FORMAT \notin decode_format_keys
    THEN [exc |-> "KeyError", called |-> "none", out |-> <<>>]
    ELSE IF FORMAT = "zint"
    THEN [exc |-> "None", called |-> "zint_to_float", out |-> zint_to_float(d)]
    ELSE IF FORMAT = "zlib"
    THEN [exc |-> "None", called |-> "zlib_to_float", out |-> zlib_to_float(d)]
    ELSE IF b64_to_float_raises(d)
    THEN [exc |-> "ValueError", called |-> "b64_to_float", out |-> <<>>]
    ELSE [exc |-> "None", called |-> "b64_to_float", out |-> b64_to_float(d)]

----------------------------------------------------------------------------
(* numpy helpers *)

\* round(1000 * cos(2 * pi * p / q)) for 0 <= p <= q <= 8
CosTable ==
    << <<1000, 1000>>,
       <<1000, 0 - 1000, 1000>>,
       <<1000, 0 - 500, 0 - 500, 1000>>,
       <<1000, 0, 0 - 1000, 0, 1000>>,
       <<1000, 309, 0 - 809, 0 - 809, 309, 1000>>,
       <<1000, 500, 0 - 500, 0 - 1000, 0 - 500, 500, 1000>>,
       <<1000, 623, 0 - 223, 0 - 901, 0 - 901, 0 - 223, 623, 1000>>,
       <<1000, 707, 0, 0 - 707, 0 - 1000, 0 - 707, 0, 707, 1000>> >>

CosMilli(p, q) == CosTable[q][(p % q) + 1]

\* sin(2 * pi * p / q) = cos(2 * pi * (p - q/4) / q), q a power of two
SinMilli(p, q) == IF q < 4 THEN 0 ELSE CosMilli(p + q - (q \div 4), q)

\* the periodic Hann window: 0.5 - 0.5 * cos(2 * pi * n / M)
hanning_periodic(M) ==
    IF M < 1 THEN <<>>
    ELSE [i \in 1..M |-> (1000 - CosMilli(i - 1, M)) \div 2]

\* np.hanning(M) in thousandths: [] for M < 1, [1.0] for M = 1,
\* 0.5 - 0.5 * cos(2 * pi * n / (M - 1)) otherwise
hanning(M) ==
    IF M < 1 THEN <<>>
    ELSE IF M = 1 THEN <<1000>>
    ELSE [i \in 1..M |-> (1000 - CosMilli(i - 1, M - 1)) \div 2]

\* linspace without the end point (endpoint=False)
linspace_open(start, stop, num) ==
    [i \in 1..num |->
        RAdd(start, RDivInt(RMul(RInt(i - 1), RSub(stop, start)), num))]

\* linspace whose single point is the stop bound
linspace_single_stop(start, stop, num) ==
    IF num = 1 THEN <<stop>>
    ELSE [i \in 1..num |->
            RAdd(start, RDivInt(RMul(RInt(i - 1), RSub(stop, start)), num - 1))]

\* np.linspace(start, stop, num) for rational start and stop
linspace(start, stop, num) ==
    IF num = 1 THEN <<start>>
    ELSE [i \in 1..num |->
            RAdd(start, RDivInt(RMul(RInt(i - 1), RSub(stop, start)), num - 1))]

\* np.ceil(np.log2(n)) for n >= 1: the least k with 2^k >= n
RECURSIVE CeilLog2From(_, _)
CeilLog2From(n, k) == IF 2 ^ k >= n THEN k ELSE CeilLog2From(n, k + 1)
CeilLog2(n) == CeilLog2From(n, 0)

\* np.pad(a, (0, k), "constant")
pad(a, k) == a \o [i \in 1..k |-> 0]

\* integer square root
RECURSIVE IsqrtBetween(_, _, _)
IsqrtBetween(x, lo, hi) ==
    IF lo >= hi THEN lo
    ELSE LET mid == (lo + hi + 1) \div 2
         IN  IF mid * mid <= x THEN IsqrtBetween(x, mid, hi)
             ELSE IsqrtBetween(x, lo, mid - 1)
Isqrt(x) == IsqrtBetween(x, 0, 46340)

RECURSIVE SumSeq(_)
SumSeq(s) == IF s = <<>> THEN 0 ELSE Head(s) + SumSeq(Tail(s))

\* indices of s, in order, whose element satisfies the mask
RECURSIVE MaskedFrom(_, _, _)
MaskedFrom(s, mask, i) ==
    IF i > Len(s) THEN <<>>
    ELSE IF mask[i] THEN <<s[i]>> \o MaskedFrom(s, mask, i + 1)
    ELSE MaskedFrom(s, mask, i + 1)
Masked(s, mask) == MaskedFrom(s, mask, 1)

\* scipy.fft.fft(x), x in thousandths: bin k (1-based) as [re, im] in thousandths
fft(x) ==
    LET M == Len(x)
        term(k, n, tw) == (x[n] * tw) \div 1000
    IN  [k \in 1..M |->
            [re |-> SumSeq([n \in 1..M |->
                        term(k, n, CosMilli((k - 1) * (n - 1), M))]),
             im |-> 0 - SumSeq([n \in 1..M |->
                        term(k, n, SinMilli((k - 1) * (n - 1), M))])]]

\* np.abs(z) of a bin, in thousandths
AbsMilli(z) == Isqrt(z.re * z.re + z.im * z.im)

\* bin frequencies without the wrap-around: bin i at i * srate / n
fftfreq_unwrapped(n, srate) ==
    [i \in 1..n |-> Rat((i - 1) * srate, n)]

\* scipy.fft.fftfreq(n, d) with d = 1 / srate
fftfreq(n, srate) ==
    [i \in 1..n |->
        IF i - 1 <= (n - 1) \div 2 THEN Rat((i - 1) * srate, n)
        ELSE Rat((i - 1 - n) * srate, n)]

----------------------------------------------------------------------------
(* Spectrum (spectrum.py) *)

NoSpectrum ==
    [built |-> FALSE, freq |-> <<>>, amp |-> <<>>,
     filtered_freq |-> None, filtered_amp |-> None]

\* Spectrum.__init__
Sp(freq, amp) ==
    [built |-> TRUE, freq |-> freq, amp |-> amp,
     filtered_freq |-> None, filtered_amp |-> None]

\* apply_filter with an exclusive upper bound
apply_filter_exclusive(self, fmin, fmax) ==
    LET filter_mask ==
            [i \in 1..Len(self.freq) |->
                RLeq(fmin, self.freq[i]) /\ RLt(self.freq[i], fmax)]
    IN  [self EXCEPT !.filtered_freq = Some(Masked(self.freq, filter_mask)),
                     !.filtered_amp = Some(Masked(self.amp, filter_mask))]

\* apply_filter that also overwrites freq and amp with the selection
apply_filter_inplace(self, fmin, fmax) ==
    LET filter_mask ==
            [i \in 1..Len(self.freq) |->
                RLeq(fmin, self.freq[i]) /\ RLeq(self.freq[i], fmax)]
    IN  [self EXCEPT !.filtered_freq = Some(Masked(self.freq, filter_mask)),
                     !.filtered_amp = Some(Masked(self.amp, filter_mask)),
                     !.freq = Masked(self.freq, filter_mask),
                     !.amp = Masked(self.amp, filter_mask)]

\* apply_filter that masks the frequencies only
apply_filter_freq_only(self, fmin, fmax) ==
    LET filter_mask ==
            [i \in 1..Len(self.freq) |->
                RLeq(fmin, self.freq[i]) /\ RLeq(self.freq[i], fmax)]
    IN  [self EXCEPT !.filtered_freq = Some(Masked(self.freq, filter_mask)),
                     !.filtered_amp = Some(self.amp)]

\* Spectrum.apply_filter
apply_filter(self, fmin, fmax) ==
    LET filter_mask ==
            [i \in 1..Len(self.freq) |->
                RLeq(fmin, self.freq[i]) /\ RLeq(self.freq[i], fmax)]
    IN  [self EXCEPT !.filtered_freq = Some(Masked(self.freq, filter_mask)),
                     !.filtered_amp = Some(Masked(self.amp, filter_mask))]

\* Spectrum.from_api, after fetch_data returned r:
\* the exception raised and the object built
Spectrum_from_api(r) ==
    IF ~r.has_factor
    THEN [exc |-> "KeyError", sp |-> NoSpectrum]
    ELSE LET fmin == IF r.has_min_freq THEN r.min_freq ELSE 0
             fmax == r.max_freq
             sp == [i \in 1..Len(zint_to_float(r.data)) |->
                        zint_to_float(r.data)[i] * r.factor]
         IN  [exc |-> "None",
              sp |-> Sp(linspace(RInt(fmin), RInt(fmax), Len(sp)), sp)]

----------------------------------------------------------------------------
(* Waveform (waveform.py) *)

NoWaveform ==
    [built |-> FALSE, time |-> <<>>, amp |-> <<>>, srate |-> 1,
     windowed_amps |-> None, padded_amps |-> None]

\* a constructor that starts with the derived fields filled from amp
Wf_derived(time, amp, srate) ==
    [built |-> TRUE, time |-> time, amp |-> amp, srate |-> srate,
     windowed_amps |-> Some(amp), padded_amps |-> Some(amp)]

\* Waveform.__init__
Wf(time, amp, srate) ==
    [built |-> TRUE, time |-> time, amp |-> amp, srate |-> srate,
     windowed_amps |-> None, padded_amps |-> None]

\* Waveform.from_api, after fetch_data returned r
Waveform_from_api(r) ==
    LET srate == r.sample_rate
        factor == IF r.has_factor THEN r.factor ELSE 1
        wave0 == zint_to_float(r.data)
        wv == [i \in 1..Len(wave0) |-> wave0[i] * factor]
        time == [i \in 1..Len(wv) |->
                    RMul(linspace(RInt(0), Rat(Len(wv), srate), Len(wv))[i],
                         RInt(1000))]
    IN  Wf(time, wv, srate)

\* hanning_window that windows the previous windowed_amps when there is one
hanning_window_compound(self) ==
    LET num_samples == Len(self.amp)
        window == hanning(num_samples)
    IN  [self EXCEPT !.windowed_amps =
            Some([i \in 1..num_samples |->
                    IF self.windowed_amps.isNone
                    THEN self.amp[i] * window[i]
                    ELSE (self.windowed_amps.arr[i] * window[i]) \div 1000])]

\* hanning_window that multiplies amp in place (self.amp *= window)
hanning_window_inplace(self) ==
    LET num_samples == Len(self.amp)
        window == hanning(num_samples)
    IN  [self EXCEPT !.amp = [i \in 1..num_samples |->
                                (self.amp[i] * window[i]) \div 1000],
                     !.windowed_amps =
                        Some([i \in 1..num_samples |-> self.amp[i] * window[i]])]

\* Waveform.hanning_window: windowed_amps in thousandths
hanning_window(self) ==
    LET num_samples == Len(self.amp)
        window == hanning(num_samples)
    IN  [self EXCEPT !.windowed_amps =
            Some([i \in 1..num_samples |-> self.amp[i] * window[i]])]

\* zero_padding without the None check: pads amp when nothing is windowed
zero_padding_unguarded(self) ==
    LET src == IF self.windowed_amps.isNone
               THEN [i \in 1..Len(self.amp) |-> self.amp[i] * 1000]
               ELSE self.windowed_amps.arr
        n == Len(src)
    IN  IF n = 0
        THEN [exc |-> "ValueError: negative integer power", self |-> self]
        ELSE [exc |-> "None",
              self |-> [self EXCEPT !.padded_amps =
                            Some(pad(src, 2 ^ CeilLog2(n) - n))]]

\* zero_padding with floor(log2(n)) + 1 for the exponent
zero_padding_next_power(self) ==
    IF self.windowed_amps.isNone
    THEN [exc |-> "ValueError: Waveform must be windowed", self |-> self]
    ELSE LET n == Len(self.windowed_amps.arr)
         IN  IF n = 0
             THEN [exc |-> "ValueError: negative integer power", self |-> self]
             ELSE LET padded_len == 2 ^ CeilLog2(n + 1)
                  IN  [exc |-> "None",
                       self |-> [self EXCEPT !.padded_amps =
                           Some(pad(self.windowed_amps.arr, padded_len - n))]]

\* zero_padding that puts the zeros in front of the windowed samples
zero_padding_front(self) ==
    IF self.windowed_amps.isNone
    THEN [exc |-> "ValueError: Waveform must be windowed", self |-> self]
    ELSE LET n == Len(self.windowed_amps.arr)
         IN  IF n = 0
             THEN [exc |-> "ValueError: negative integer power", self |-> self]
             ELSE LET padded_len == 2 ^ CeilLog2(n)
                  IN  [exc |-> "None",
                       self |-> [self EXCEPT !.padded_amps =
                           Some([i \in 1..(padded_len - n) |-> 0]
                                \o self.windowed_amps.arr)]]

\* Waveform.zero_padding: the exception raised and the object afterwards.
\* For n = 0, np.log2 gives -inf, the cast to int gives the most negative
\* integer, and 2 ** (negative numpy integer) raises ValueError.
zero_padding(self) ==
    IF self.windowed_amps.isNone
    THEN [exc |-> "ValueError: Waveform must be windowed", self |-> self]
    ELSE LET n == Len(self.windowed_amps.arr)
         IN  IF n = 0
             THEN [exc |-> "ValueError: negative integer power", self |-> self]
             ELSE LET padded_len == 2 ^ CeilLog2(n)
                  IN  [exc |-> "None",
                       self |-> [self EXCEPT !.padded_amps =
                           Some(pad(self.windowed_amps.arr, padded_len - n))]]

\* create_spectrum with its two steps in the other order
create_spectrum_pad_first(self, fmin, fmax) ==
    LET ranPad == self.padded_amps.isNone
        p == IF ranPad THEN zero_padding(self) ELSE [exc |-> "None", self |-> self]
        ranWindow == p.self.windowed_amps.isNone
        s2 == IF ranWindow THEN hanning_window(p.self) ELSE p.self
        bins == fft(s2.padded_amps.arr)
        M == Len(bins)
        amps == [i \in 1..M |-> (AbsMilli(bins[i]) * 2828) \div (1000 * M)]
        freqs == fftfreq(Len(s2.padded_amps.arr), s2.srate)
    IN  IF p.exc # "None"
        THEN [exc |-> p.exc, self |-> p.self, spectrum |-> NoSpectrum,
              ranWindow |-> FALSE, ranPad |-> FALSE]
        ELSE [exc |-> "None", self |-> s2,
              spectrum |-> apply_filter(Sp(freqs, amps), fmin, fmax),
              ranWindow |-> ranWindow, ranPad |-> ranPad]

\* create_spectrum that divides by the number of samples, not of bins
create_spectrum_by_samples(self, fmin, fmax) ==
    LET ranWindow == self.windowed_amps.isNone
        s1 == IF ranWindow THEN hanning_window(self) ELSE self
        ranPad == s1.padded_amps.isNone
        p == IF ranPad THEN zero_padding(s1) ELSE [exc |-> "None", self |-> s1]
        s2 == p.self
        bins == fft(s2.padded_amps.arr)
        M == Len(bins)
        amps == [i \in 1..M |->
                    (AbsMilli(bins[i]) * 2828) \div (1000 * Len(s2.amp))]
        freqs == fftfreq(Len(s2.padded_amps.arr), s2.srate)
    IN  IF p.exc # "None"
        THEN [exc |-> p.exc, self |-> s2, spectrum |-> NoSpectrum,
              ranWindow |-> ranWindow, ranPad |-> FALSE]
        ELSE [exc |-> "None", self |-> s2,
              spectrum |-> apply_filter(Sp(freqs, amps), fmin, fmax),
              ranWindow |-> ranWindow, ranPad |-> ranPad]

\* Waveform.create_spectrum: the exception raised, the object afterwards,
\* the Spectrum returned, and which of the two derived fields it assigned
create_spectrum(self, fmin, fmax) ==
    LET ranWindow == self.windowed_amps.isNone
        s1 == IF ranWindow THEN hanning_window(self) ELSE self
        ranPad == s1.padded_amps.isNone
        p == IF ranPad THEN zero_padding(s1) ELSE [exc |-> "None", self |-> s1]
        s2 == p.self
        bins == fft(s2.padded_amps.arr)
        M == Len(bins)
        amps == [i \in 1..M |-> (AbsMilli(bins[i]) * 2828) \div (1000 * M)]
        freqs == fftfreq(Len(s2.padded_amps.arr), s2.srate)
    IN  IF p.exc # "None"
        THEN [exc |-> p.exc, self |-> s2, spectrum |-> NoSpectrum,
              ranWindow |-> ranWindow, ranPad |-> FALSE]
        ELSE [exc |-> "None", self |-> s2,
              spectrum |-> apply_filter(Sp(freqs, amps), fmin, fmax),
              ranWindow |-> ranWindow, ranPad |-> ranPad]

----------------------------------------------------------------------------
(* Comparison of the two spectra (spectra_comparison/compare_spectra.py) *)

\* ndarray.min() and ndarray.max() of a non-empty array of rationals
RECURSIVE SeqMin(_)
SeqMin(f) ==
    IF Len(f) = 1 THEN f[1]
    ELSE LET m == SeqMin(Tail(f)) IN IF RLeq(f[1], m) THEN f[1] ELSE m

RECURSIVE SeqMax(_)
SeqMax(f) ==
    IF Len(f) = 1 THEN f[1]
    ELSE LET m == SeqMax(Tail(f)) IN IF RLeq(m, f[1]) THEN f[1] ELSE m

\* compare_two_spectra that filters from frequency 0 up
compare_two_spectra_from_zero(wv, t8_spectrum) ==
    IF Len(t8_spectrum.freq) = 0
    THEN [exc |-> "ValueError: zero-size array", wave |-> wv,
          t8_spectrum |-> t8_spectrum, calculated_spectrum |-> NoSpectrum]
    ELSE LET fmax == SeqMax(t8_spectrum.freq)
             c == create_spectrum(wv, RInt(0), fmax)
         IN  [exc |-> c.exc, wave |-> c.self, t8_spectrum |-> t8_spectrum,
              calculated_spectrum |-> c.spectrum]

\* compare_two_spectra from "fmin, fmax = ..." on, given the Waveform and
\* the Spectrum the two from_api calls returned: the exception raised and
\* the three objects afterwards (min() of an empty array raises ValueError)
compare_two_spectra(wv, t8_spectrum) ==
    IF Len(t8_spectrum.freq) = 0
    THEN [exc |-> "ValueError: zero-size array", wave |-> wv,
          t8_spectrum |-> t8_spectrum, calculated_spectrum |-> NoSpectrum]
    ELSE LET fmin == SeqMin(t8_spectrum.freq)
             fmax == SeqMax(t8_spectrum.freq)
             c == create_spectrum(wv, fmin, fmax)
         IN  [exc |-> c.exc, wave |-> c.self, t8_spectrum |-> t8_spectrum,
              calculated_spectrum |-> c.spectrum]

----------------------------------------------------------------------------
(* The decode scripts (data/waveform_decode.py, data/spectrum_decode.py) *)

\* wave *= factor: an int16 sample is multiplied; a float32 sample is kept as
\* its bit pattern together with the factor
Times(FORMAT, sample, factor) ==
    IF FORMAT = "zint" THEN sample * factor
    ELSE [bits |-> sample, factor |-> factor]

\* data/waveform_decode.py from "ret = r.json()" on
waveform_decode(FORMAT, ret) ==
    LET srate == ret.sample_rate
        factor == IF ret.has_factor THEN ret.factor ELSE 1
        dec == decode(FORMAT, ret.data)
        wv == [i \in 1..Len(dec.out) |-> Times(FORMAT, dec.out[i], factor)]
    IN  [name |-> "waveform_decode", FORMAT |-> FORMAT, raw |-> ret.data,
         exc |-> dec.exc, called |-> dec.called,
         samples |-> IF dec.exc = "None" THEN wv ELSE <<>>,
         axis |-> IF dec.exc = "None"
                  THEN linspace(RInt(0), Rat(Len(wv), srate), Len(wv))
                  ELSE <<>>]

\* data/spectrum_decode.py from "ret = r.json()" on
spectrum_decode(FORMAT, ret) ==
    LET fmin == IF ret.has_min_freq THEN ret.min_freq ELSE 0
        fmax == ret.max_freq
        dec == decode(FORMAT, ret.data)
        sp == [i \in 1..Len(dec.out) |-> Times(FORMAT, dec.out[i], ret.factor)]
    IN  IF ~ret.has_factor
        THEN [name |-> "spectrum_decode", FORMAT |-> FORMAT, raw |-> ret.data,
              exc |-> "KeyError", called |-> "none",
              samples |-> <<>>, axis |-> <<>>]
        ELSE [name |-> "spectrum_decode", FORMAT |-> FORMAT, raw |-> ret.data,
              exc |-> dec.exc, called |-> dec.called,
              samples |-> IF dec.exc = "None" THEN sp ELSE <<>>,
              axis |-> IF dec.exc = "None"
                       THEN linspace(RInt(fmin), RInt(fmax), Len(sp))
                       ELSE <<>>]

----------------------------------------------------------------------------
(* Date-time conversions (functions.py).  An ISO 8601 string
   'YYYY-MM-DDTHH:MM:SS' is modelled by its six fields <<Y, M, D, h, m, s>>;
   a Unix timestamp is an integer number of seconds. *)

IsLeap(y) == (y % 4 = 0 /\ y % 100 # 0) \/ y % 400 = 0

DaysInMonth(y, m) ==
    IF m = 2 THEN (IF IsLeap(y) THEN 29 ELSE 28)
    ELSE IF m \in {4, 6, 9, 11} THEN 30 ELSE 31

\* leap years among the years 1 .. y - 1
LeapsBefore(y) == ((y - 1) \div 4) - ((y - 1) \div 100) + ((y - 1) \div 400)

\* days from 1970-01-01 to the first day of year y
DaysBeforeYear(y) == 365 * (y - 1970) + LeapsBefore(y) - LeapsBefore(1970)

\* days from the first day of year y to the first day of its month m
RECURSIVE DaysBeforeMonth(_, _)
DaysBeforeMonth(y, m) ==
    IF m = 1 THEN 0 ELSE DaysBeforeMonth(y, m - 1) + DaysInMonth(y, m - 1)

\* days from 1970-01-01 to the date y-m-d
DaysFromCivil(y, m, d) == DaysBeforeYear(y) + DaysBeforeMonth(y, m) + d - 1

\* the year that holds day n (counted from 1970-01-01), searched from y
RECURSIVE YearOfDay(_, _)
YearOfDay(n, y) ==
    IF n < DaysBeforeYear(y) THEN YearOfDay(n, y - 1)
    ELSE IF n >= DaysBeforeYear(y + 1) THEN YearOfDay(n, y + 1)
    ELSE y

\* the month of year y that holds its day n (0-based), searched from m
RECURSIVE MonthOfDay(_, _, _)
MonthOfDay(y, n, m) ==
    IF n >= DaysBeforeMonth(y, m) + DaysInMonth(y, m)
    THEN MonthOfDay(y, n, m + 1) ELSE m

\* the fields of the date-time that is t seconds after 1970-01-01T00:00:00
CivilFromSeconds(t) ==
    LET n == t \div 86400
        r == t % 86400
        y == YearOfDay(n, 1970 + (n \div 366))
        yd == n - DaysBeforeYear(y)
        m == MonthOfDay(y, yd, 1)
    IN  <<y, m, yd - DaysBeforeMonth(y, m) + 1,
          r \div 3600, (r % 3600) \div 60, r % 60>>

\* seconds from 1970-01-01T00:00:00 to the date-time of the fields
SecondsFromCivil(iso) ==
    DaysFromCivil(iso[1], iso[2], iso[3]) * 86400
        + iso[4] * 3600 + iso[5] * 60 + iso[6]

\* the last Sunday of month m of year y (1970-01-01 was a Thursday)
LastSunday(y, m) ==
    LET last == DaysInMonth(y, m)
        weekday == (DaysFromCivil(y, m, last) + 4) % 7
    IN  last - weekday

\* zoneinfo.ZoneInfo("Europe/Madrid"): Central European Time (UTC+1) all
\* year from 1950 to 1973; from 1996 on summer time (UTC+2) from 01:00 UTC
\* on the last Sunday of March to 01:00 UTC on the last Sunday of October.
\* (The years 1974 to 1995 had other rules and are left out of the inputs.)
SummerStart(y) == DaysFromCivil(y, 3, LastSunday(y, 3)) * 86400 + 3600
SummerEnd(y) == DaysFromCivil(y, 10, LastSunday(y, 10)) * 86400 + 3600

\* utcoffset of Europe/Madrid at the instant t (a Unix timestamp)
MadridOffsetAt(t) ==
    LET y == CivilFromSeconds(t)[1]
    IN  IF y >= 1996 /\ SummerStart(y) <= t /\ t < SummerEnd(y)
        THEN 7200 ELSE 3600

\* utcoffset of Europe/Madrid for the wall-clock fields iso (fold = 0: in
\* the skipped hour and in the repeated hour the offset before the change)
MadridOffsetOfWall(iso) ==
    LET y == iso[1]
        w == SecondsFromCivil(iso)
    IN  IF y >= 1996 /\ SummerStart(y) + 7200 <= w /\ w < SummerEnd(y) + 7200
        THEN 7200 ELSE 3600

\* functions.py get_unix_timestamp_from_iso
get_unix_timestamp_from_iso(iso_str) ==
    SecondsFromCivil(iso_str) - MadridOffsetOfWall(iso_str)

\* functions.py get_iso_from_unix_timestamp
get_iso_from_unix_timestamp(timestamp) ==
    CivilFromSeconds(timestamp + MadridOffsetAt(timestamp))

----------------------------------------------------------------------------
(* Fetching (functions.py) and the command-line group (main.py).  An option
   or environment variable that is not set is Python's None, written
   "<None>"; a response is modelled by its status code and by the value its
   json() method returns. *)

Unset == "<None>"

\* Python truth value of an optional string
Truthy(x) == x \notin {Unset, ""}

\* Python "a or b"
Or(a, b) == IF Truthy(a) THEN a ELSE b

\* fetch_data that accepts every 2xx status code
fetch_data_any_success(resp) ==
    IF resp.status_code \div 100 # 2
    THEN [exc |-> "SystemExit", returned |-> None]
    ELSE [exc |-> "None", returned |-> Some(resp.json)]

\* functions.py fetch_data, once requests.get returned the response resp:
\* the exception raised and the value returned
fetch_data(resp) ==
    IF resp.status_code # 200
    THEN [exc |-> "SystemExit", returned |-> None]
    ELSE [exc |-> "None", returned |-> Some(resp.json)]

\* functions.py get_timestamps: the exception raised, the outcome of
\* fetch_data, and the list of ISO strings returned
get_timestamps(resp) ==
    LET data == fetch_data(resp)
        items == IF data.exc = "None" /\ data.returned.arr.has_items
                 THEN data.returned.arr.items ELSE <<>>
    IN  [exc |-> data.exc, data |-> data,
         timestamps |-> [i \in 1..Len(items) |->
                            get_iso_from_unix_timestamp(items[i])]]

\* the names main reports as missing
missing_vars(user, passw, host) ==
    (IF ~Truthy(user) THEN <<"USER">> ELSE <<>>)
    \o (IF ~Truthy(passw) THEN <<"PASSW">> ELSE <<>>)
    \o (IF ~Truthy(host) THEN <<"HOST">> ELSE <<>>)

\* main that lets the environment override the command-line flags
main_env_first(flags, env) ==
    LET user == Or(env.USER, flags.user)
        passw == Or(env.PASSW, flags.passw)
        host == Or(env.HOST, flags.host)
        missing == missing_vars(user, passw, host)
    IN  IF missing # <<>>
        THEN [state |-> "exited", flags |-> flags, env |-> env, obj |-> <<>>,
              missing |-> missing, exit_code |-> 1, echoed |-> missing,
              subcommand |-> "none"]
        ELSE [state |-> "ready", flags |-> flags, env |-> env,
              obj |-> [USER |-> user, PASSW |-> passw, HOST |-> host],
              missing |-> missing, exit_code |-> 0, echoed |-> <<>>,
              subcommand |-> "none"]

\* main.py main, the callback of the click group: the client afterwards
\* (echoed holds the names listed in the error message)
main(flags, env) ==
    LET user == Or(flags.user, env.USER)
        passw == Or(flags.passw, env.PASSW)
        host == Or(flags.host, env.HOST)
        missing == missing_vars(user, passw, host)
    IN  IF missing # <<>>
        THEN [state |-> "exited", flags |-> flags, env |-> env, obj |-> <<>>,
              missing |-> missing, exit_code |-> 1, echoed |-> missing,
              subcommand |-> "none"]
        ELSE [state |-> "ready", flags |-> flags, env |-> env,
              obj |-> [USER |-> user, PASSW |-> passw, HOST |-> host],
              missing |-> missing, exit_code |-> 0, echoed |-> <<>>,
              subcommand |-> "none"]

----------------------------------------------------------------------------
(* Inputs *)

\* the first k bytes of a pattern repeated for ever
Cut(pat, k) == [i \in 1..k |-> pat[((i - 1) % Len(pat)) + 1]]

ByteStrings == {Cut(pat, k) : pat \in Patterns, k \in 0..MaxBytes}

\* JSON bodies of /rest/waves/...; "factor" is optional
WavePayloads ==
    {[data |-> d, has_factor |-> TRUE, factor |-> f, sample_rate |-> sr] :
        d \in ByteStrings, f \in Factors, sr \in SampleRates}
    \cup
    {[data |-> d, has_factor |-> FALSE, factor |-> 0, sample_rate |-> sr] :
        d \in ByteStrings, sr \in SampleRates}

\* JSON bodies of /rest/spectra/...; "factor" and "min_freq" may be missing
SpectrumPayloads ==
    {[data |-> d, has_factor |-> hf, factor |-> IF hf THEN f ELSE 0,
      has_min_freq |-> hm, min_freq |-> IF hm THEN mn ELSE 0, max_freq |-> mx] :
        d \in ByteStrings, hf \in BOOLEAN, f \in Factors,
        hm \in BOOLEAN, mn \in MinFreqs, mx \in MaxFreqs}

\* the samples 1000 and -500 as two little-endian 16-bit integers
ExampleBytes == <<232, 3, 12, 254>>

\* the payloads handed to data/waveform_decode.py
ScriptWavePayloads ==
    WavePayloads
    \cup {[data |-> ExampleBytes, has_factor |-> FALSE, factor |-> 0,
           sample_rate |-> sr] : sr \in SampleRates}

NoPayload ==
    [data |-> <<>>, has_factor |-> FALSE, factor |-> 0, sample_rate |-> 1,
     has_min_freq |-> FALSE, min_freq |-> 0, max_freq |-> 0]

\* the dates the conversions are tried on: around the epoch, the two dates
\* of the repository's tests, and the days the clocks change in 2025
Dates ==
    { <<1969, 12, 31>>, <<1970, 1, 1>>, <<2021, 10, 1>>,
      <<2025, 3, 25>>, <<2025, 3, 30>>, <<2025, 10, 26>> }

MinutesSeconds == { <<0, 0>>, <<56, 23>> }

\* ISO 8601 strings given to get_unix_timestamp_from_iso
IsoInputs ==
    { <<d[1], d[2], d[3], h, ms[1], ms[2]>> :
        d \in Dates, h \in 0..23, ms \in MinutesSeconds }

\* Unix timestamps given to get_iso_from_unix_timestamp
UnixInputs == { SecondsFromCivil(iso) : iso \in IsoInputs }

\* no command line handled yet
NoCli ==
    [state |-> "start", flags |-> <<>>, env |-> <<>>, obj |-> <<>>,
     missing |-> <<>>, exit_code |-> 0, echoed |-> <<>>, subcommand |-> "none"]

\* what -u, -p and -h may hold: not given, given empty, given
FlagValues == {Unset, "", "flag"}

\* what USER, PASSW and HOST may hold: not set, set empty, set
EnvValues == {Unset, "", "env"}

\* status codes of the device's responses
StatusCodes == {200, 201, 204, 401, 404, 500}

\* parsed JSON bodies: "_items" may be missing; an item is reduced to the
\* timestamp that ends its "self" link
JsonBodies ==
    { [has_items |-> FALSE, items |-> <<>>],
      [has_items |-> TRUE, items |-> <<0>>],
      [has_items |-> TRUE, items |-> <<0 - 3600, 1633089600>>] }

Responses ==
    { [status_code |-> c, json |-> j] : c \in StatusCodes, j \in JsonBodies }

\* fetch_data not called yet
NoResponse ==
    [called |-> FALSE, status_code |-> 0, json |-> <<>>,
     exc |-> "None", returned |-> None]

\* no conversion made yet
NoConv == [fn |-> "none", iso |-> <<>>, timestamp |-> 0]

NoScript ==
    [name |-> "none", FORMAT |-> "none", raw |-> <<>>, exc |-> "None",
     called |-> "none", samples |-> <<>>, axis |-> <<>>]

----------------------------------------------------------------------------
(* State machine *)

Init ==
    /\ wave = NoWaveform
    /\ spectrum = NoSpectrum
    /\ calc = NoSpectrum
    /\ err = "None"
    /\ lastCall = "init"
    /\ windowWrites = 0
    /\ padWrites = 0
    /\ r_wave = NoPayload
    /\ r_spectrum = NoPayload
    /\ band = <<0, 0>>
    /\ script = NoScript
    /\ cli = NoCli
    /\ response = NoResponse
    /\ conv = NoConv

\* wave = Waveform.from_api(params)
WaveFromApi ==
    /\ ~wave.built
    /\ \E r \in WavePayloads :
        /\ r_wave' = r
        /\ wave' = Waveform_from_api(r)
    /\ err' = "None"
    /\ lastCall' = "Waveform.from_api"
    /\ UNCHANGED <<cli, response, conv, spectrum, calc, windowWrites, padWrites, r_spectrum, band, script>>

\* wave.hanning_window()
HanningWindow ==
    /\ wave.built
    /\ windowWrites < MaxWrites
    /\ wave' = hanning_window(wave)
    /\ windowWrites' = windowWrites + 1
    /\ err' = "None"
    /\ lastCall' = "hanning_window"
    /\ UNCHANGED <<cli, response, conv, spectrum, calc, padWrites, r_wave, r_spectrum, band, script>>

\* wave.zero_padding()
ZeroPadding ==
    /\ wave.built
    /\ padWrites < MaxWrites
    /\ LET p == zero_padding(wave)
       IN  /\ wave' = p.self
           /\ err' = p.exc
           /\ padWrites' = IF p.exc = "None" THEN padWrites + 1 ELSE padWrites
    /\ lastCall' = "zero_padding"
    /\ UNCHANGED <<cli, response, conv, spectrum, calc, windowWrites, r_wave, r_spectrum, band, script>>

\* calc = wave.create_spectrum(fmin, fmax)
CreateSpectrum ==
    /\ wave.built
    /\ \E b \in Bands :
        \E c \in {create_spectrum(wave, RInt(b[1]), RInt(b[2]))} :
            /\ band' = b
            /\ wave' = c.self
            /\ err' = c.exc
            /\ calc' = IF c.exc = "None" THEN c.spectrum ELSE calc
            /\ windowWrites' = IF c.ranWindow THEN windowWrites + 1 ELSE windowWrites
            /\ padWrites' = IF c.ranPad THEN padWrites + 1 ELSE padWrites
    /\ lastCall' = "create_spectrum"
    /\ UNCHANGED <<cli, response, conv, spectrum, r_wave, r_spectrum, script>>

\* calc.apply_filter(fmin, fmax)
FilterCalc ==
    /\ calc.built
    /\ \E b \in Bands :
        /\ band' = b
        /\ calc' = apply_filter(calc, RInt(b[1]), RInt(b[2]))
    /\ err' = "None"
    /\ lastCall' = "calc.apply_filter"
    /\ UNCHANGED <<cli, response, conv, wave, spectrum, windowWrites, padWrites, r_wave, r_spectrum, script>>

Next ==
    \/ WaveFromApi
    \/ HanningWindow
    \/ ZeroPadding
    \/ CreateSpectrum
    \/ FilterCalc

Spec == Init /\ [][Next]_vars

----------------------------------------------------------------------------
(* The reference spectrum on its own *)

\* spectrum = Spectrum.from_api(params)
SpectrumFromApi ==
    /\ ~spectrum.built
    /\ \E r \in SpectrumPayloads :
        LET c == Spectrum_from_api(r)
        IN  /\ r_spectrum' = r
            /\ spectrum' = c.sp
            /\ err' = c.exc
    /\ lastCall' = "Spectrum.from_api"
    /\ UNCHANGED <<cli, response, conv, wave, calc, windowWrites, padWrites, r_wave, band, script>>

\* spectrum.apply_filter(fmin, fmax)
FilterSpectrum ==
    /\ spectrum.built
    /\ \E b \in Bands :
        /\ band' = b
        /\ spectrum' = apply_filter(spectrum, RInt(b[1]), RInt(b[2]))
    /\ err' = "None"
    /\ lastCall' = "spectrum.apply_filter"
    /\ UNCHANGED <<cli, response, conv, wave, calc, windowWrites, padWrites, r_wave, r_spectrum, script>>

NextSpectrum ==
    \/ SpectrumFromApi
    \/ FilterSpectrum

SpecSpectrum == Init /\ [][NextSpectrum]_vars

----------------------------------------------------------------------------
(* One object per run: a Waveform with the spectrum computed from it, or a
   reference Spectrum.  The two kinds of object share no state. *)

NextObject ==
    \/ (r_spectrum = NoPayload /\ WaveFromApi)
    \/ (r_spectrum = NoPayload /\ HanningWindow)
    \/ (r_spectrum = NoPayload /\ ZeroPadding)
    \/ (r_spectrum = NoPayload /\ CreateSpectrum)
    \/ (r_spectrum = NoPayload /\ FilterCalc)
    \/ (r_wave = NoPayload /\ SpectrumFromApi)
    \/ (r_wave = NoPayload /\ FilterSpectrum)

SpecObject == Init /\ [][NextObject]_vars

----------------------------------------------------------------------------
(* Runs of the decode scripts *)

RunWaveformDecode ==
    /\ script.name = "none"
    /\ \E f \in Formats, r \in ScriptWavePayloads :
        /\ script' = waveform_decode(f, r)
        /\ r_wave' = r
    /\ err' = script'.exc
    /\ lastCall' = "waveform_decode"
    /\ UNCHANGED <<cli, response, conv, wave, spectrum, calc, windowWrites, padWrites, r_spectrum, band>>

RunSpectrumDecode ==
    /\ script.name = "none"
    /\ \E f \in Formats, r \in SpectrumPayloads :
        /\ script' = spectrum_decode(f, r)
        /\ r_spectrum' = r
    /\ err' = script'.exc
    /\ lastCall' = "spectrum_decode"
    /\ UNCHANGED <<cli, response, conv, wave, spectrum, calc, windowWrites, padWrites, r_wave, band>>

NextDecode ==
    \/ RunWaveformDecode
    \/ RunSpectrumDecode

SpecDecode == Init /\ [][NextDecode]_vars

----------------------------------------------------------------------------
(* The date-time conversions on their own *)

\* fun.get_unix_timestamp_from_iso(iso_str)
GetUnixTimestampFromIso ==
    /\ \E iso_str \in IsoInputs :
        conv' = [fn |-> "get_unix_timestamp_from_iso", iso |-> iso_str,
                 timestamp |-> get_unix_timestamp_from_iso(iso_str)]
    /\ err' = "None"
    /\ lastCall' = "get_unix_timestamp_from_iso"
    /\ UNCHANGED <<wave, spectrum, calc, windowWrites, padWrites, r_wave,
                   r_spectrum, band, script, cli, response>>

\* fun.get_iso_from_unix_timestamp(timestamp)
GetIsoFromUnixTimestamp ==
    /\ \E timestamp \in UnixInputs :
        conv' = [fn |-> "get_iso_from_unix_timestamp", timestamp |-> timestamp,
                 iso |-> get_iso_from_unix_timestamp(timestamp)]
    /\ err' = "None"
    /\ lastCall' = "get_iso_from_unix_timestamp"
    /\ UNCHANGED <<wave, spectrum, calc, windowWrites, padWrites, r_wave,
                   r_spectrum, band, script, cli, response>>

NextTime ==
    \/ GetUnixTimestampFromIso
    \/ GetIsoFromUnixTimestamp

SpecTime == Init /\ [][NextTime]_vars

----------------------------------------------------------------------------
(* A run of the command-line client: the group callback, then list_waves *)

\* click calls main with the options of the command line
Main ==
    /\ cli.state = "start"
    /\ \E u \in FlagValues, p \in FlagValues, h \in FlagValues,
          eu \in EnvValues, ep \in EnvValues, eh \in EnvValues :
        cli' = main([user |-> u, passw |-> p, host |-> h],
                    [USER |-> eu, PASSW |-> ep, HOST |-> eh])
    /\ err' = IF cli'.state = "exited" THEN "Exit" ELSE "None"
    /\ lastCall' = "main"
    /\ UNCHANGED <<wave, spectrum, calc, windowWrites, padWrites, r_wave,
                   r_spectrum, band, script, response, conv>>

\* the subcommand list_waves, which click runs after main returned
ListWaves ==
    /\ cli.state = "ready"
    /\ \E resp \in Responses :
        LET t == get_timestamps(resp)
        IN  /\ response' = [called |-> TRUE, status_code |-> resp.status_code,
                            json |-> resp.json, exc |-> t.data.exc,
                            returned |-> t.data.returned]
            /\ err' = t.exc
            /\ cli' = IF t.exc = "SystemExit"
                      THEN [cli EXCEPT !.state = "exited", !.exit_code = 1,
                                       !.subcommand = "list_waves"]
                      ELSE [cli EXCEPT !.state = "done", !.echoed = t.timestamps,
                                       !.subcommand = "list_waves"]
    /\ lastCall' = "list_waves"
    /\ UNCHANGED <<wave, spectrum, calc, windowWrites, padWrites, r_wave,
                   r_spectrum, band, script, conv>>

NextCli ==
    \/ Main
    \/ ListWaves

SpecCli == Init /\ [][NextCli]_vars

----------------------------------------------------------------------------
(* A run of compare_two_spectra: the two fetches, then the comparison *)

\* wave = Wf.from_api(params)
CompareFetchWave ==
    /\ lastCall = "init"
    /\ WaveFromApi

\* t8_spectrum = Sp.from_api(params)
CompareFetchSpectrum ==
    /\ lastCall = "Waveform.from_api"
    /\ SpectrumFromApi

\* fmin, fmax = ...; calculated_spectrum = wave.create_spectrum(fmin, fmax)
CompareCreateSpectrum ==
    /\ lastCall = "Spectrum.from_api"
    /\ spectrum.built
    /\ \E c \in {compare_two_spectra(wave, spectrum)} :
        /\ wave' = c.wave
        /\ spectrum' = c.t8_spectrum
        /\ calc' = c.calculated_spectrum
        /\ err' = c.exc
        /\ windowWrites' = IF c.wave.windowed_amps.isNone
                           THEN windowWrites ELSE windowWrites + 1
        /\ padWrites' = IF c.wave.padded_amps.isNone
                        THEN padWrites ELSE padWrites + 1
    /\ lastCall' = "compare_two_spectra"
    /\ UNCHANGED <<r_wave, r_spectrum, band, script, cli, response, conv>>

NextCompare ==
    \/ CompareFetchWave
    \/ CompareFetchSpectrum
    \/ CompareCreateSpectrum

SpecCompare == Init /\ [][NextCompare]_vars

----------------------------------------------------------------------------
(* Properties *)

ErrNotWindowed == "ValueError: Waveform must be windowed"

IsPow2(m) == \E k \in 0..m : 2 ^ k = m

\* C1: zero_padding called on a Waveform whose windowed_amps is still None
\* raises the "must be windowed" error (and pads nothing), whatever calls
\* came before.
C1_PaddingBeforeWindowingFails ==
    (lastCall = "zero_padding" /\ wave.windowed_amps.isNone)
        => (err = ErrNotWindowed /\ wave.padded_amps.isNone)

C1_Witness ==
    /\ lastCall = "zero_padding"
    /\ wave.windowed_amps.isNone
    /\ err = ErrNotWindowed
    /\ Len(wave.amp) = 5

C3_PaddingToNextPowerOfTwo ==
    ~wave.padded_amps.isNone =>
        LET W == wave.windowed_amps.arr
            P == wave.padded_amps.arr
            N == Len(W)
        IN  /\ ~wave.windowed_amps.isNone
            /\ N >= 1
            /\ Len(P) >= N
            /\ IsPow2(Len(P))
            /\ \A m \in N..(Len(P) - 1) : ~IsPow2(m)
            /\ \A i \in 1..N : P[i] = W[i]
            /\ \A i \in (N + 1)..Len(P) : P[i] = 0

C3_Witness ==
    /\ lastCall = "zero_padding"
    /\ err = "None"
    /\ Len(wave.windowed_amps.arr) = 5
    /\ Len(wave.padded_amps.arr) = 8
    /\ wave.padded_amps.arr[2] # 0

\* C4: create_spectrum never raises the "must be windowed" error; when it
\* returns, both derived fields are set and the padded samples were made
\* from the windowed ones; and it assigns a derived field exactly when that
\* field was None (the padded one: when, in addition, padding succeeds).
C4_CreateSpectrumOrdersItsSteps ==
    [][ lastCall' = "create_spectrum" =>
        /\ err' # ErrNotWindowed
        /\ err' = "None" =>
            /\ calc'.built
            /\ ~wave'.windowed_amps.isNone
            /\ ~wave'.padded_amps.isNone
            /\ SubSeq(wave'.padded_amps.arr, 1, Len(wave'.windowed_amps.arr))
                    = wave'.windowed_amps.arr
            /\ Len(calc'.freq) = Len(wave'.padded_amps.arr)
        /\ windowWrites' =
                windowWrites + (IF wave.windowed_amps.isNone THEN 1 ELSE 0)
        /\ padWrites' =
                padWrites + (IF wave.padded_amps.isNone /\ err' = "None"
                             THEN 1 ELSE 0)
        /\ ~wave.windowed_amps.isNone
                => wave'.windowed_amps = wave.windowed_amps
        /\ ~wave.padded_amps.isNone
                => wave'.padded_amps = wave.padded_amps ]_vars

C4_Witness ==
    /\ lastCall = "create_spectrum"
    /\ err = "None"
    /\ calc.built
    /\ windowWrites = 1
    /\ padWrites = 1
    /\ Len(wave.amp) = 5
    /\ Len(calc.amp) = 8

\* the j-th smallest element of a finite set of integers
Kth(S, j) == CHOOSE i \in S : Cardinality({m \in S : m <= i}) = j

\* the filtered view of sp holds exactly the pairs of sp whose frequency
\* lies in [b[1], b[2]], in their order in sp
FilteredExactly(sp, b) ==
    LET idx == {i \in 1..Len(sp.freq) :
                    RLeq(RInt(b[1]), sp.freq[i]) /\ RLeq(sp.freq[i], RInt(b[2]))}
        ff == sp.filtered_freq.arr
        fa == sp.filtered_amp.arr
    IN  /\ ~sp.filtered_freq.isNone
        /\ ~sp.filtered_amp.isNone
        /\ Len(ff) = Cardinality(idx)
        /\ Len(fa) = Cardinality(idx)
        /\ \A j \in 1..Cardinality(idx) :
                /\ ff[j] = sp.freq[Kth(idx, j)]
                /\ fa[j] = sp.amp[Kth(idx, j)]

\* C5: after create_spectrum or apply_filter with (fmin, fmax), the filtered
\* view is exactly the (frequency, amplitude) pairs with
\* fmin <= frequency <= fmax, in their original order, each amplitude with
\* its own frequency.
C5_FilterSelectsInclusiveBand ==
    calc.built => FilteredExactly(calc, band)

C5_Witness ==
    /\ calc.built
    /\ lastCall = "calc.apply_filter"
    /\ band = <<0 - 4, 0>>
    /\ Len(calc.freq) = 8
    /\ calc.filtered_freq.arr =
            <<RInt(0), RInt(0 - 4), RInt(0 - 3), RInt(0 - 2), RInt(0 - 1)>>
    /\ calc.filtered_amp.arr[1] # calc.filtered_amp.arr[2]

\* C6: an apply_filter call leaves freq and amp of the spectrum as they were.
C6_FilterKeepsUnfilteredArrays ==
    [][ lastCall' = "spectrum.apply_filter" =>
            (spectrum'.freq = spectrum.freq /\ spectrum'.amp = spectrum.amp) ]_vars

C6_Witness ==
    /\ lastCall = "spectrum.apply_filter"
    /\ Len(spectrum.freq) = 5
    /\ Len(spectrum.filtered_freq.arr) \in 1..4
    /\ spectrum.amp[5] # 0

\* C7: a decoder handed a byte string whose length is no multiple of its
\* element size (2 for zint_to_float, 4 for zlib_to_float) raises, and
\* returns no samples.
C7_TruncatedPayloadRaises ==
    (\/ script.called = "zint_to_float" /\ Len(script.raw) % 2 # 0
     \/ script.called = "zlib_to_float" /\ Len(script.raw) % 4 # 0)
        => (script.exc # "None" /\ script.samples = <<>>)

\* C8: decode_format maps each of zint, zlib and b64 to its decoder, and
\* looking up any other FORMAT raises KeyError with no decoder called.
C8_CodecSelection ==
    (lastCall \in {"waveform_decode", "spectrum_decode"}
        /\ (script.name = "spectrum_decode" => r_spectrum.has_factor))
    => /\ script.FORMAT = "zint" => script.called = "zint_to_float"
       /\ script.FORMAT = "zlib" => script.called = "zlib_to_float"
       /\ script.FORMAT = "b64" => script.called = "b64_to_float"
       /\ script.FORMAT \notin {"zint", "zlib", "b64"}
            => /\ script.exc = "KeyError"
               /\ script.called = "none"
               /\ script.samples = <<>>

C8_Witness ==
    /\ lastCall = "waveform_decode"
    /\ script.FORMAT = "raw"
    /\ script.exc = "KeyError"
    /\ Len(script.raw) = 10

\* C9: a payload without "factor" is decoded with factor 1: from_api
\* returns the object and its amplitudes are the decoded samples
\* themselves, for a waveform payload and for a spectrum payload.
C9_FactorDefaultsToOne ==
    /\ (lastCall = "Waveform.from_api" /\ ~r_wave.has_factor)
        => (err = "None" /\ wave.built /\ wave.amp = zint_to_float(r_wave.data))
    /\ (lastCall = "Spectrum.from_api" /\ ~r_spectrum.has_factor)
        => (err = "None" /\ spectrum.built
            /\ spectrum.amp = zint_to_float(r_spectrum.data))

\* C10: time[i] = (i / sample_rate) * 1000 for every sample index i
\* (0-based) of a Waveform built by from_api.
C10_TimeAxisStep ==
    wave.built =>
        \A i \in 1..Len(wave.amp) :
            wave.time[i] = Rat((i - 1) * 1000, wave.srate)

\* the "min_freq" Spectrum.from_api used for payload r (0 when r has none)
FreqMin(r) == IF r.has_min_freq THEN r.min_freq ELSE 0

\* consecutive elements of the rational sequence f are equally far apart
EvenlySpaced(f) ==
    \A i \in 1..(Len(f) - 1) : RSub(f[i + 1], f[i]) = RSub(f[2], f[1])

\* C11 (as claimed): the frequency axis of a Spectrum built from a payload
\* of N samples has N points, evenly spaced, the first at freq_min (0 when
\* the payload has no min_freq) and the last at freq_max.
C11_AxisFromMinToMax ==
    spectrum.built =>
        LET N == Len(r_spectrum.data) \div 2
        IN  /\ Len(spectrum.freq) = N
            /\ EvenlySpaced(spectrum.freq)
            /\ N >= 1 => /\ spectrum.freq[1] = RInt(FreqMin(r_spectrum))
                         /\ spectrum.freq[N] = RInt(r_spectrum.max_freq)

\* C11 (amended): as claimed for N >= 2; for N = 1 the single point is
\* freq_min, whatever freq_max is.
C11_AxisFromMinToMaxFromTwoPoints ==
    spectrum.built =>
        LET N == Len(r_spectrum.data) \div 2
        IN  /\ Len(spectrum.freq) = N
            /\ EvenlySpaced(spectrum.freq)
            /\ N >= 1 => spectrum.freq[1] = RInt(FreqMin(r_spectrum))
            /\ N >= 2 => spectrum.freq[N] = RInt(r_spectrum.max_freq)

C11_Witness ==
    /\ spectrum.built
    /\ lastCall = "Spectrum.from_api"
    /\ ~r_spectrum.has_min_freq
    /\ r_spectrum.max_freq = 4
    /\ spectrum.freq = <<RInt(0), RInt(1), RInt(2), RInt(3), RInt(4)>>

\* every element of the rational sequence f is >= 0
NonNegative(f) == \A i \in 1..Len(f) : f[i].n >= 0

\* the rational sequence f is strictly increasing
Increasing(f) == \A i \in 1..(Len(f) - 1) : RLt(f[i], f[i + 1])

\* C12: whatever band create_spectrum (or a later apply_filter on its
\* result) is given, the filtered view of the computed spectrum holds no
\* negative frequency.
C12_FilteredBandNonNegative ==
    (calc.built /\ ~calc.filtered_freq.isNone)
        => NonNegative(calc.filtered_freq.arr)

\* C13: the frequencies of every Spectrum, built from a payload or computed
\* from a Waveform, are increasing and none is negative.
C13_FrequenciesIncreasingNonNegative ==
    /\ spectrum.built => (Increasing(spectrum.freq) /\ NonNegative(spectrum.freq))
    /\ calc.built => (Increasing(calc.freq) /\ NonNegative(calc.freq))

\* C14: no amplitude of a Spectrum, built from a payload or computed from a
\* Waveform, is negative.
C14_AmplitudesNonNegative ==
    /\ spectrum.built => \A i \in 1..Len(spectrum.amp) : spectrum.amp[i] >= 0
    /\ calc.built => \A i \in 1..Len(calc.amp) : calc.amp[i] >= 0

\* freq and amp of the Spectrum sp pair up, and so does its filtered view
\* once a filter call has set it
PairedSpectrum(sp) ==
    /\ Len(sp.freq) = Len(sp.amp)
    /\ sp.filtered_freq.isNone = sp.filtered_amp.isNone
    /\ ~sp.filtered_freq.isNone
            => Len(sp.filtered_freq.arr) = Len(sp.filtered_amp.arr)

\* C15: in every reachable state the paired sequences have equal length:
\* amp and time of a Waveform built from a payload, freq and amp of a
\* Spectrum built from a payload or computed from a Waveform, and the
\* filtered frequencies and amplitudes after any filter call.
C15_PairedLengthsEqual ==
    /\ wave.built => Len(wave.amp) = Len(wave.time)
    /\ spectrum.built => PairedSpectrum(spectrum)
    /\ calc.built => PairedSpectrum(calc)

C15_Witness ==
    /\ lastCall = "calc.apply_filter"
    /\ band = <<2, 3>>
    /\ Len(wave.time) = 5
    /\ Len(calc.amp) = 8
    /\ Len(calc.filtered_amp.arr) = 2

\* the error of 2 ** np.ceil(np.log2(0)).astype(int)
ErrLog2OfZero == "ValueError: negative integer power"

\* C16: on a Waveform of zero samples neither hanning_window, zero_padding
\* nor create_spectrum evaluates the padded length from log2(0): no call
\* ends in the error of raising 2 to that undefined exponent.
C16_ZeroLengthNeverTakesLog2 ==
    (wave.built /\ Len(wave.amp) = 0) => err # ErrLog2OfZero

\* C17: an axis generated for N = 1 sample is the single point at its start
\* bound: 0 for the time axis of a Waveform, freq_min for the frequency axis
\* of a Spectrum built from a payload (no step is computed, so nothing is
\* divided by N - 1 = 0).
C17_SinglePointAxisIsStart ==
    /\ (wave.built /\ Len(wave.amp) = 1) => wave.time = <<RInt(0)>>
    /\ (spectrum.built /\ Len(spectrum.amp) = 1)
            => spectrum.freq = <<RInt(FreqMin(r_spectrum))>>

C17_Witness ==
    /\ spectrum.built
    /\ Len(spectrum.amp) = 1
    /\ r_spectrum.has_min_freq
    /\ r_spectrum.min_freq = 1
    /\ r_spectrum.max_freq = 4
    /\ spectrum.freq = <<RInt(1)>>

\* the factor a decode script multiplied its samples by
ScriptFactor ==
    IF script.name = "spectrum_decode" THEN r_spectrum.factor
    ELSE IF r_wave.has_factor THEN r_wave.factor ELSE 1

\* C18: zint_to_float turns 2k bytes into exactly k samples, sample j
\* (0-based) being bytes 2j and 2j + 1 read as a little-endian signed
\* 16-bit integer: low + 256 * high, less 65536 from 32768 on (the samples
\* seen after the script scaled them by its factor).
C18_ZintDecodesSignedLittleEndian ==
    (script.called = "zint_to_float" /\ script.exc = "None"
        /\ Len(script.raw) % 2 = 0)
    => LET k == Len(script.raw) \div 2
       IN  /\ Len(script.samples) = k
           /\ \A j \in 0..(k - 1) :
                LET v == script.raw[2 * j + 1] + 256 * script.raw[2 * j + 2]
                IN  script.samples[j + 1] =
                        ScriptFactor * (IF v >= 32768 THEN v - 65536 ELSE v)

C18_Witness ==
    /\ lastCall = "waveform_decode"
    /\ script.called = "zint_to_float"
    /\ script.raw = ExampleBytes
    /\ script.samples = <<1000, 0 - 500>>

\* the Hann windows of 1 to 5 points, in thousandths
HannExact ==
    << <<1000>>,
       <<0, 0>>,
       <<0, 1000, 0>>,
       <<0, 750, 750, 0>>,
       <<0, 500, 1000, 500, 0>> >>

\* C19: once windowed, windowed_amps has the N elements amp[i] * w[i] with
\* w the Hann window of N points, w[i] = 0.5 - 0.5 cos(2 pi i / (N - 1)) for
\* N > 1 (so the first and the last windowed sample are 0), and w = 1 for
\* N = 1 (the sample is unchanged).  Values are in thousandths; the cosine
\* is rounded to a thousandth, which leaves an error below |amp[i]| / 1000.
C19_WindowIsHann ==
    ~wave.windowed_amps.isNone
    => LET N == Len(wave.amp)
           w == wave.windowed_amps.arr
       IN  /\ Len(w) = N
           /\ N = 1 => w[1] = 1000 * wave.amp[1]
           /\ N > 1 => (w[1] = 0 /\ w[N] = 0)
           /\ N \in 1..5 => \A i \in 1..N : w[i] = wave.amp[i] * HannExact[N][i]
           /\ N > 1 => \A i \in 1..N :
                Abs(2 * w[i] - wave.amp[i] * (1000 - CosMilli(i - 1, N - 1)))
                    <= Abs(wave.amp[i])

C19_Witness ==
    /\ lastCall = "hanning_window"
    /\ wave.amp = <<0, 1, 0 - 1, 0, 3>>
    /\ wave.windowed_amps.arr = <<0, 500, 0 - 1000, 0, 0>>

\* C20: a hanning_window call on a Waveform that is windowed already leaves
\* windowed_amps as the first call set it, and what it holds is the window
\* applied once to amp, never to the windowed samples.
C20_WindowTwiceIsWindowOnce ==
    [][ (lastCall' = "hanning_window" /\ ~wave.windowed_amps.isNone)
        => /\ wave'.windowed_amps = wave.windowed_amps
           /\ wave'.amp = wave.amp
           /\ \A i \in 1..Len(wave.amp) :
                wave'.windowed_amps.arr[i] =
                    wave.amp[i] * hanning(Len(wave.amp))[i] ]_vars

C20_Witness ==
    /\ lastCall = "hanning_window"
    /\ windowWrites = 2
    /\ padWrites = 0
    /\ ~calc.built
    /\ Len(wave.amp) = 4
    /\ wave.windowed_amps.arr[2] = 750 * wave.amp[2]
    /\ wave.amp[2] # 0

\* C21: the frequency axis of a computed spectrum has M = len(padded_amps)
\* entries in the transform's own order: bin i (0-based) is at
\* i * srate / M in the lower half and at (i - M) * srate / M in the upper
\* half, which wraps to the negative frequencies.
C21_AxisInTransformOrder ==
    calc.built
    => LET M == Len(wave.padded_amps.arr)
       IN  /\ ~wave.padded_amps.isNone
           /\ Len(calc.freq) = M
           /\ \A i \in 0..(M - 1) :
                LET f == calc.freq[i + 1]
                IN  IF 2 * i < M
                    THEN f.n * M = i * wave.srate * f.d
                    ELSE f.n * M = (i - M) * wave.srate * f.d

C21_Witness ==
    /\ lastCall = "create_spectrum"
    /\ calc.built
    /\ wave.srate = 8
    /\ calc.freq = <<RInt(0), RInt(1), RInt(2), RInt(3),
                     RInt(0 - 4), RInt(0 - 3), RInt(0 - 2), RInt(0 - 1)>>

\* x[1] - x[2] + x[3] - ... : the transform of x at the bin of half the
\* sample rate
RECURSIVE AlternatingSum(_)
AlternatingSum(x) ==
    IF x = <<>> THEN 0 ELSE Head(x) - AlternatingSum(Tail(x))

\* C22: amplitude k of a computed spectrum is the magnitude of bin k of the
\* transform of padded_amps, times 2 * sqrt(2) (2.828), divided by the
\* number M of padded samples (thousandths, rounded down).  Bin 0 of the
\* transform is the sum of the padded samples and bin M / 2 their
\* alternating sum, which fixes those two amplitudes without the transform.
C22_AmplitudeNormalisation ==
    calc.built
    => LET x == wave.padded_amps.arr
           M == Len(x)
           X == fft(x)
       IN  /\ Len(calc.amp) = M
           /\ \A k \in 1..M :
                calc.amp[k] = (AbsMilli(X[k]) * 2828) \div (1000 * M)
           /\ calc.amp[1] = (Abs(SumSeq(x)) * 2828) \div (1000 * M)
           /\ M >= 2 => calc.amp[(M \div 2) + 1] =
                            (Abs(AlternatingSum(x)) * 2828) \div (1000 * M)

C22_Witness ==
    /\ lastCall = "create_spectrum"
    /\ calc.built
    /\ Len(wave.amp) = 5
    /\ Len(calc.amp) = 8
    /\ calc.amp[1] > 0
    /\ calc.amp[2] # calc.amp[1]

\* C23: the frequency range of a Spectrum built from a payload is in
\* order, freq_min <= freq_max, also when the payload's min_freq is greater
\* than its max_freq: the axis never runs from a greater first frequency
\* down to a smaller last one.
C23_MinFreqAtMostMaxFreq ==
    (spectrum.built /\ Len(spectrum.freq) >= 1)
        => RLeq(spectrum.freq[1], spectrum.freq[Len(spectrum.freq)])

\* C24: a Waveform just constructed holds the time, amplitude and sample
\* rate it was given (by from_api: the scaled samples, their time axis and
\* the payload's sample rate) and neither windowed_amps nor padded_amps; a
\* Spectrum just constructed has no filtered view.
C24_FreshObjectsHaveNoDerivedData ==
    /\ lastCall = "Waveform.from_api"
        => LET f == IF r_wave.has_factor THEN r_wave.factor ELSE 1
               d == zint_to_float(r_wave.data)
               N == Len(d)
               t == linspace(RInt(0), Rat(N, r_wave.sample_rate), N)
           IN  /\ wave.built
               /\ wave.srate = r_wave.sample_rate
               /\ wave.amp = [i \in 1..N |-> d[i] * f]
               /\ wave.time = [i \in 1..N |-> RMul(t[i], RInt(1000))]
               /\ wave.windowed_amps = None
               /\ wave.padded_amps = None
    /\ (lastCall = "Spectrum.from_api" /\ spectrum.built)
        => (spectrum.filtered_freq = None /\ spectrum.filtered_amp = None)

C24_Witness ==
    /\ lastCall = "Waveform.from_api"
    /\ wave.amp = <<0, 1, 0 - 1, 0, 3>>
    /\ wave.srate = 8
    /\ wave.windowed_amps.isNone
    /\ wave.padded_amps.isNone

\* C26: both conversions put the written date-time at zero offset from the
\* epoch: 1970-01-01T00:00:00 is timestamp 0 and 1969-12-31T23:00:00 is
\* timestamp -3600, in either direction.
C26_EpochIsTimestampZero ==
    /\ conv.fn = "get_unix_timestamp_from_iso"
        => /\ conv.iso = <<1970, 1, 1, 0, 0, 0>> => conv.timestamp = 0
           /\ conv.iso = <<1969, 12, 31, 23, 0, 0>> => conv.timestamp = 0 - 3600
    /\ conv.fn = "get_iso_from_unix_timestamp"
        => /\ conv.timestamp = 0 => conv.iso = <<1970, 1, 1, 0, 0, 0>>
           /\ conv.timestamp = 0 - 3600 => conv.iso = <<1969, 12, 31, 23, 0, 0>>

\* C25: fetch_data returns the parsed JSON body exactly when the status
\* code of the response is 200; with any other status code it raises
\* SystemExit and returns nothing.
C25_FetchReturnsOnlyOn200 ==
    response.called
    => /\ (response.status_code = 200)
            <=> (response.exc = "None" /\ response.returned = Some(response.json))
       /\ response.status_code # 200
            => (response.exc = "SystemExit" /\ response.returned = None)

C25_Witness ==
    /\ response.called
    /\ response.status_code = 500
    /\ response.exc = "SystemExit"
    /\ cli.exit_code = 1

\* the flag when it is given (set and not empty), else the variable
Resolved(flag, variable) ==
    IF flag \notin {Unset, ""} THEN flag ELSE variable

\* C30: main takes user, password and host each from its flag when the flag
\* is given (set and not empty) and else from USER, PASSW, HOST.  If one of
\* the three is still missing, it names exactly the missing ones and exits
\* with status 1: the context stays empty, no subcommand runs and nothing is
\* fetched.  Otherwise the three values are in the context.
C30_CredentialsResolvedOrExit ==
    cli.state # "start"
    => LET user == Resolved(cli.flags.user, cli.env.USER)
           passw == Resolved(cli.flags.passw, cli.env.PASSW)
           host == Resolved(cli.flags.host, cli.env.HOST)
           absent == {x \in {user, passw, host} : x \in {Unset, ""}}
       IN  /\ absent # {}
                => /\ cli.state = "exited"
                   /\ cli.exit_code = 1
                   /\ cli.obj = <<>>
                   /\ cli.subcommand = "none"
                   /\ ~response.called
                   /\ \A i \in 1..Len(cli.echoed) :
                        cli.echoed[i] \in {"USER", "PASSW", "HOST"}
                   /\ ("USER" \in {cli.echoed[i] : i \in 1..Len(cli.echoed)})
                        <=> user \in {Unset, ""}
                   /\ ("PASSW" \in {cli.echoed[i] : i \in 1..Len(cli.echoed)})
                        <=> passw \in {Unset, ""}
                   /\ ("HOST" \in {cli.echoed[i] : i \in 1..Len(cli.echoed)})
                        <=> host \in {Unset, ""}
           /\ absent = {}
                => cli.obj = [USER |-> user, PASSW |-> passw, HOST |-> host]

C30_Witness ==
    /\ cli.state = "exited"
    /\ cli.flags = [user |-> "flag", passw |-> Unset, host |-> "flag"]
    /\ cli.env = [USER |-> "env", PASSW |-> "", HOST |-> Unset]
    /\ cli.echoed = <<"PASSW">>
    /\ cli.exit_code = 1
    /\ ~response.called

\* C27: after any calls of hanning_window, zero_padding and create_spectrum,
\* failed ones included: if padded_amps is set then windowed_amps is set,
\* padded_amps is windowed_amps followed by zeros only, and its length is a
\* power of two that is >= len(amp).
C27_PaddedExtendsWindowed ==
    ~wave.padded_amps.isNone
    => /\ ~wave.windowed_amps.isNone
       /\ LET P == wave.padded_amps.arr
              W == wave.windowed_amps.arr
          IN  /\ Len(W) <= Len(P)
              /\ SubSeq(P, 1, Len(W)) = W
              /\ SubSeq(P, Len(W) + 1, Len(P)) = [i \in 1..(Len(P) - Len(W)) |-> 0]
              /\ \E k \in 0..Len(P) : 2 ^ k = Len(P)
              /\ Len(P) >= Len(wave.amp)

C27_Witness ==
    /\ lastCall = "hanning_window"
    /\ windowWrites = 2
    /\ padWrites = 1
    /\ Len(wave.amp) = 3
    /\ Len(wave.padded_amps.arr) = 4
    /\ wave.padded_amps.arr[2] # 0

\* C28: a zero_padding call that fails because nothing is windowed yet
\* leaves the Waveform as it was (padded_amps still unset), and a
\* zero_padding call that follows a hanning_window call succeeds.
C28_FailedPaddingIsRecoverable ==
    [][ /\ (lastCall' = "zero_padding" /\ wave.windowed_amps.isNone)
            => (err' = ErrNotWindowed /\ wave' = wave /\ wave'.padded_amps.isNone)
        /\ (lastCall = "hanning_window" /\ lastCall' = "zero_padding")
            => (err' = "None" /\ ~wave'.padded_amps.isNone) ]_vars

\* the rational x lies between the least and the greatest element of f
WithinRange(x, f) ==
    /\ \E i \in 1..Len(f) : RLeq(f[i], x)
    /\ \E i \in 1..Len(f) : RLeq(x, f[i])

\* C29: when compare_two_spectra has computed the spectrum of the waveform,
\* its filtered view holds the computed frequencies that lie in the range
\* of the reference spectrum's frequencies, all of them and no other; the
\* reference spectrum is as from_api returned it, with no filtered view.
C29_ComparisonBandIsReferenceRange ==
    lastCall = "compare_two_spectra"
    => /\ spectrum = Spectrum_from_api(r_spectrum).sp
       /\ spectrum.filtered_freq = None
       /\ spectrum.filtered_amp = None
       /\ err = "None"
            => /\ calc.built
               /\ ~calc.filtered_freq.isNone
               /\ \A i \in 1..Len(calc.filtered_freq.arr) :
                    WithinRange(calc.filtered_freq.arr[i], spectrum.freq)
               /\ Len(calc.filtered_freq.arr) =
                    Cardinality({i \in 1..Len(calc.freq) :
                                    WithinRange(calc.freq[i], spectrum.freq)})

C29_Witness ==
    /\ lastCall = "compare_two_spectra"
    /\ err = "None"
    /\ r_spectrum.has_min_freq
    /\ r_spectrum.max_freq = 4
    /\ Len(spectrum.freq) = 5
    /\ Len(calc.freq) = 8
    /\ calc.filtered_freq.arr = <<RInt(1), RInt(2), RInt(3)>>

====
